---- MODULE Spec2Model ----
(***************************************************************************)
(* Model of conan-check-updates' command line driver                       *)
(* (src/conan_check_updates/__main__.py): run() filters the requirements   *)
(* of a conanfile, collects one SearchResult per requirement through       *)
(* async_progressbar(search_versions_parallel(...)), and prints a sorted   *)
(* report; main() swallows KeyboardInterrupt.                              *)
(*                                                                         *)
(* Text is a sequence of one-character strings; package names are          *)
(* sequences of code points so that Python's str ordering can be computed. *)
(***************************************************************************)
EXTENDS Integers, Sequences, FiniteSets, TLC

\* Longest requirement list read from the conanfile.
MaxRefs == 2

--------------------------------------------------------------------------
\* Values

None == [kind |-> "none"]

Ver(rel, pre) == [kind |-> "version", release |-> rel, pre |-> pre]

Opaque(txt) == [kind |-> "str", text |-> txt]

Range(lo, hi) == [kind |-> "range", lo |-> lo, hi |-> hi]

\* code points of the characters used in package names and patterns
Cp == [bang |-> 33, star |-> 42, question |-> 63, Z |-> 90, a |-> 97, b |-> 98]

MAJOR == "major"
MINOR == "minor"
PATCH == "patch"

VersionPart == {MAJOR, MINOR, PATCH}

--------------------------------------------------------------------------
\* version.py (not part of the sources at hand; after the specification)

is_semantic_version(v) == v.kind = "version"

Component(rel, k) == IF k <= Len(rel) THEN rel[k] ELSE 0

MaxArity(a, b) == IF Len(a) >= Len(b) THEN Len(a) ELSE Len(b)

\* first index where the zero-padded releases differ, 0 if none
FirstDiff(a, b) ==
    LET ds == {k \in 1..MaxArity(a, b) : Component(a, k) # Component(b, k)}
    IN  IF ds = {} THEN 0 ELSE CHOOSE k \in ds : \A m \in ds : k <= m

\* -1, 0, 1: release components first, a pre-release before its release
compare(a, b) ==
    LET d == FirstDiff(a.release, b.release)
    IN  IF d # 0
        THEN (IF Component(a.release, d) < Component(b.release, d) THEN -1 ELSE 1)
        ELSE IF a.pre = b.pre THEN 0
        ELSE IF a.pre THEN -1 ELSE 1

satisfies(range, v) ==
    /\ compare(v, Ver(range.lo, FALSE)) >= 0
    /\ compare(v, Ver(range.hi, FALSE)) < 0

\* elements of a sequence that pass a test, as a set of indices
Indices(s) == 1..Len(s)

\* the first maximal element (by compare) among the indices ks of versions
MaxIndex(versions, ks) ==
    CHOOSE k \in ks :
        /\ \A m \in ks : compare(versions[m], versions[k]) <= 0
        /\ \A m \in ks : compare(versions[m], versions[k]) = 0 => k <= m

max_satifies(range, candidates) ==
    LET ks == {k \in Indices(candidates) :
                  /\ is_semantic_version(candidates[k])
                  /\ satisfies(range, candidates[k])}
    IN  IF ks = {} THEN None ELSE candidates[MaxIndex(candidates, ks)]

\* the update may change the component at position d only if the ceiling allows
WithinTarget(d, target) ==
    CASE target = MAJOR -> TRUE
      [] target = MINOR -> d = 0 \/ d >= 2
      [] target = PATCH -> d = 0 \/ d >= 3

find_update(current, versions, target) ==
    IF ~is_semantic_version(current) THEN None
    ELSE
      LET ks == {k \in Indices(versions) :
                    /\ is_semantic_version(versions[k])
                    /\ compare(versions[k], current) > 0
                    /\ WithinTarget(FirstDiff(versions[k].release, current.release), target)
                    /\ (versions[k].pre => current.pre)}
      IN  IF ks = {} THEN None ELSE versions[MaxIndex(versions, ks)]

--------------------------------------------------------------------------
\* str()

Digit(n) == ToString(n)

RECURSIVE JoinText(_, _)
JoinText(parts, sep) ==
    IF parts = <<>> THEN <<>>
    ELSE IF Len(parts) = 1 THEN parts[1]
    ELSE parts[1] \o sep \o JoinText(Tail(parts), sep)

StrRelease(rel) == JoinText([k \in Indices(rel) |-> <<Digit(rel[k])>>], <<".">>)

Str(v) ==
    CASE v.kind = "version" ->
             StrRelease(v.release) \o (IF v.pre THEN <<"-", "r", "c">> ELSE <<>>)
      [] v.kind = "str" -> v.text
      [] v.kind = "range" ->
             <<">", "=">> \o StrRelease(v.lo) \o <<" ", "<">> \o StrRelease(v.hi)
      [] v.kind = "none" -> <<"N", "o", "n", "e">>

--------------------------------------------------------------------------
\* filter.py (not part of the sources at hand; after the specification)

RECURSIVE fnmatch(_, _)
fnmatch(name, pat) ==
    IF pat = <<>> THEN name = <<>>
    ELSE IF Head(pat) = Cp.star
         THEN \/ fnmatch(name, Tail(pat))
              \/ (name # <<>> /\ fnmatch(Tail(name), pat))
    ELSE IF name = <<>> THEN FALSE
    ELSE /\ (Head(pat) = Cp.question \/ Head(pat) = Head(name))
         /\ fnmatch(Tail(name), Tail(pat))

IsNegative(pat) == pat # <<>> /\ Head(pat) = Cp.bang

matches_any(name, patterns) ==
    LET pos == {k \in Indices(patterns) : ~IsNegative(patterns[k])}
        neg == {k \in Indices(patterns) : IsNegative(patterns[k])}
    IN  /\ (pos = {} \/ \E k \in pos : fnmatch(name, patterns[k]))
        /\ \A k \in neg : ~fnmatch(name, Tail(patterns[k]))

--------------------------------------------------------------------------
\* __main__.py: pure helpers

Colors == [RESET |-> "ESC[0m", RED |-> "ESC[31m", BOLD |-> "ESC[1m"]

colored(txt, color) == <<color>> \o txt \o <<Colors.RESET>>

Min(a, b) == IF a <= b THEN a ELSE b

Max(a, b) == IF a >= b THEN a ELSE b

highlight_version_diff(version, cmp) ==
    LET ds == {k \in 1..Min(Len(version), Len(cmp)) : version[k] # cmp[k]}
    IN  IF ds = {} THEN version
        ELSE LET d == CHOOSE k \in ds : \A m \in ds : k <= m
             IN  SubSeq(version, 1, d - 1)
                   \o colored(SubSeq(version, d, Len(version)), Colors.RED)

StrAll(versions) == [k \in Indices(versions) |-> Str(versions[k])]

\* variant: the branch for a current version that is not semantic is missing
text_update_columnNoList(current_version, update_version, versions) ==
    IF update_version # None
    THEN highlight_version_diff(Str(update_version), Str(current_version))
    ELSE Str(current_version)

text_update_column(current_version, update_version, versions) ==
    IF ~is_semantic_version(current_version)
    THEN JoinText(StrAll(versions), <<",", " ">>)
    ELSE IF update_version # None
    THEN highlight_version_diff(Str(update_version), Str(current_version))
    ELSE Str(current_version)

resolve_version(version_or_range, versions) ==
    IF version_or_range.kind = "range"
    THEN LET versions_semantic == SelectSeq(versions, is_semantic_version)
         IN  max_satifies(version_or_range, versions_semantic)
    ELSE version_or_range

\* Python truth value of the resolved version: None and "" are false
Truthy(v) ==
    CASE v.kind = "none" -> FALSE
      [] v.kind = "str" -> v.text # <<>>
      [] OTHER -> TRUE

\* variant: find_update is called without looking at the resolved version
InvokedAlways(current_version_resolved) == TRUE

\* run(): is find_update called for this resolved version
Invoked(current_version_resolved) == Truthy(current_version_resolved)

update_version_of(current_version_resolved, versions, tgt) ==
    IF Invoked(current_version_resolved)
    THEN find_update(current_version_resolved, versions, tgt)
    ELSE None

\* variant: drops every record without an update, whatever its current version
skipNoUpdate(current_version_resolved, update_version) == update_version = None

skip(current_version_resolved, update_version) ==
    is_semantic_version(current_version_resolved) /\ update_version = None

\* Python's str comparison a < b, by code point
RECURSIVE StrLess(_, _)
StrLess(a, b) ==
    IF b = <<>> THEN FALSE
    ELSE IF a = <<>> THEN TRUE
    ELSE IF Head(a) # Head(b) THEN Head(a) < Head(b)
    ELSE StrLess(Tail(a), Tail(b))

SortKey(r) == r.ref.package

\* variant: descending order
BeforeReversed(x, y) == StrLess(SortKey(y), SortKey(x))

\* does x go before y in the sorted list when x was met later than y
Before(x, y) == StrLess(SortKey(x), SortKey(y))

\* stable insertion of x into the sorted list s
RECURSIVE Insert(_, _)
Insert(s, x) ==
    IF s = <<>> THEN <<x>>
    ELSE IF Before(x, s[Len(s)])
         THEN Append(Insert(SubSeq(s, 1, Len(s) - 1), x), s[Len(s)])
         ELSE Append(s, x)

RECURSIVE SortedFrom(_, _)
SortedFrom(acc, rs) ==
    IF rs = <<>> THEN acc ELSE SortedFrom(Insert(acc, Head(rs)), Tail(rs))

\* variant: the results are reported in the order they arrived
sortedNot(rs) == rs

sorted(rs) == SortedFrom(<<>>, rs)

RECURSIVE MaxLen(_, _)
MaxLen(texts, floor) ==
    IF texts = <<>> THEN floor ELSE MaxLen(Tail(texts), Max(floor, Len(Head(texts))))

MinCol == 10

cols_package(rs) == MaxLen([k \in Indices(rs) |-> rs[k].ref.package], Max(0, MinCol)) + 1

cols_version(rs) == MaxLen([k \in Indices(rs) |-> Str(rs[k].ref.version)], Max(0, MinCol))

\* one printed line: the arguments of format_str.format
Row(result, current, update, rs) ==
    [package |-> result.ref.package,
     version |-> Str(result.ref.version),
     update |-> text_update_column(current, update, result.versions),
     cols_package |-> cols_package(rs),
     cols_version |-> cols_version(rs)]

BarSize == 20

\* show(j) of async_progressbar: what is written to the file
ShowLine(j, total) ==
    [j |-> j, total |-> total,
     nbar |-> IF total > 0 THEN (BarSize * j) \div total ELSE BarSize,
     perc |-> IF total > 0 THEN (100 * j) \div total ELSE 100]

ShowAssert(j, total) == 0 <= j /\ j <= total

--------------------------------------------------------------------------
\* Inputs: the conanfile, the registry, the command line

NameZ == <<Cp.Z>>
NameA == <<Cp.a>>
NameAB == <<Cp.a, Cp.b>>
NameB == <<Cp.b>>

V100 == Ver(<<1, 0, 0>>, FALSE)
V110 == Ver(<<1, 1, 0>>, FALSE)
V200 == Ver(<<2, 0, 0>>, FALSE)
V210rc == Ver(<<2, 1, 0>>, TRUE)
Main == Opaque(<<"m", "a", "i", "n">>)

Ref(package, version) == [package |-> package, version |-> version]

\* requirements a conanfile may declare
Catalog ==
    {Ref(NameZ, V100), Ref(NameA, V200), Ref(NameAB, Main),
     Ref(NameB, Range(<<1, 0, 0>>, <<2, 0, 0>>)),
     Ref(NameB, Range(<<3, 0, 0>>, <<4, 0, 0>>))}

\* versions the registry publishes for a package
Registry(package) ==
    CASE package = NameZ -> <<V100, V110, V200>>
      [] package = NameA -> <<V100, V200, V210rc, Main>>
      [] package = NameAB -> <<Main, V100>>
      [] package = NameB -> <<V100, Main, V110, V200>>

\* command line filters: none, "a*", "!b"
Filters == {<<>>, <<<<Cp.a, Cp.star>>>>, <<<<Cp.bang, Cp.b>>>>}

RefLists == UNION {[1..n -> Catalog] : n \in 0..MaxRefs}

--------------------------------------------------------------------------
\* conan.py (not part of the sources at hand; after the specification)

\* the SearchResult of the k-th lookup: a failed or timed out lookup has no versions
SearchResult(ref, hasFailed) ==
    [ref |-> ref,
     versions |-> IF hasFailed THEN <<>> ELSE Registry(ref.package),
     error |-> hasFailed]

--------------------------------------------------------------------------
\* State

VARIABLES
    refs,            \* inspect_requires_conanfile(conanfile)
    package_filter,  \* args.filter
    target,          \* args.target
    failing,         \* positions of refs_filtered whose lookup fails or times out
    pc,              \* where run() stands
    refs_filtered,   \* run(): refs_filtered
    pending,         \* lookups in flight (positions of refs_filtered)
    ready,           \* completed lookups not yet handed to the consumer
    item,            \* async_progressbar: the item being yielded
    i,               \* async_progressbar: i
    shown,           \* lines written by show(), oldest first
    assertOk,        \* no assert of show() has failed
    results,         \* run(): results
    todo,            \* run(): rest of sorted(results) still to be looked at
    verdicts,        \* run(): what each loop iteration computed
    printed          \* rows printed on stdout

vars == <<refs, package_filter, target, failing, pc, refs_filtered, pending, ready,
          item, i, shown, assertOk, results, todo, verdicts, printed>>

inputs == <<refs, package_filter, target, failing>>

N == Len(refs_filtered)

\* the count on the progress line last written; -1 before the first line
displayed == IF shown = <<>> THEN -1 ELSE shown[Len(shown)].j

Init ==
    /\ refs \in RefLists
    /\ package_filter \in Filters
    /\ target \in VersionPart
    /\ failing \in SUBSET (1..Len(refs))
    /\ pc = "start"
    /\ refs_filtered = <<>>
    /\ pending = {}
    /\ ready = <<>>
    /\ item = None
    /\ i = 0
    /\ shown = <<>>
    /\ assertOk = TRUE
    /\ results = <<>>
    /\ todo = <<>>
    /\ verdicts = <<>>
    /\ printed = <<>>

--------------------------------------------------------------------------
\* Actions

Filtered(rs, patterns) == SelectSeq(rs, LAMBDA ref : matches_any(ref.package, patterns))

\* run(): lines 112-115
RunStart ==
    /\ pc = "start"
    /\ refs_filtered' = Filtered(refs, package_filter)
    /\ pc' = "bar"
    /\ UNCHANGED <<inputs, pending, ready, item, i, shown, assertOk, results, todo,
                   verdicts, printed>>

\* variant: the total is one short
TotalShort(rf) == Len(rf) - 1

Total(rf) == Len(rf)

InitialCount == 0

\* show(j): the assert, then the line; a failed assert ends the program
Show(j, total, nextpc) ==
    IF ShowAssert(j, total)
    THEN /\ shown' = Append(shown, ShowLine(j, total))
         /\ assertOk' = assertOk
         /\ pc' = nextpc
    ELSE /\ shown' = shown
         /\ assertOk' = FALSE
         /\ pc' = "crashed"

\* async_progressbar: i = 0; show(i); the first request starts the lookups
BarStart ==
    /\ pc = "bar"
    /\ i' = InitialCount
    /\ Show(InitialCount, Total(refs_filtered), "await")
    /\ pending' = 1..N
    /\ UNCHANGED <<inputs, refs_filtered, ready, item, results, todo, verdicts, printed>>

\* a lookup worker finishes (result, error or timeout) while the consumer waits
LookupDone(k) ==
    /\ pc \in {"await", "yielded", "resume"}
    /\ k \in pending
    /\ pending' = pending \ {k}
    /\ ready' = Append(ready, SearchResult(refs_filtered[k], k \in failing))
    /\ UNCHANGED <<inputs, pc, refs_filtered, item, i, shown, assertOk, results, todo,
                   verdicts, printed>>

\* async for item in it: the awaited item arrives; yield item
Yield ==
    /\ pc = "await"
    /\ ready # <<>>
    /\ item' = Head(ready)
    /\ ready' = Tail(ready)
    /\ pc' = "yielded"
    /\ UNCHANGED <<inputs, refs_filtered, pending, i, shown, assertOk, results, todo,
                   verdicts, printed>>

\* run(): the comprehension takes the yielded result and asks for the next
Collect ==
    /\ pc = "yielded"
    /\ results' = Append(results, item)
    /\ pc' = "resume"
    /\ UNCHANGED <<inputs, refs_filtered, pending, ready, item, i, shown, assertOk, todo,
                   verdicts, printed>>

\* variant: the count advances by two
NextCountTwice(j) == j + 2

NextCount(j) == j + 1

\* variant: show() is called before the increment
ShownBeforeIncrement(j) == j

ShownAfterItem(j) == NextCount(j)

\* async_progressbar after the yield: i += 1; show(i)
Resume ==
    /\ pc = "resume"
    /\ i' = NextCount(i)
    /\ Show(ShownAfterItem(i), Total(refs_filtered), "await")
    /\ UNCHANGED <<inputs, refs_filtered, pending, ready, item, results, todo, verdicts,
                   printed>>

\* search_versions_parallel has produced every result
FetcherExhausted == pending = {} /\ ready = <<>>

\* variant: the report starts as soon as one result is there
CollectFinishedEarly == pc = "await" /\ results # <<>>

\* the comprehension ends when the wrapped iterator does
CollectFinished == pc = "await" /\ FetcherExhausted

\* end of the comprehension; cols; sorted(results)
ReportStart ==
    /\ CollectFinished
    /\ todo' = sorted(results)
    /\ pc' = "report"
    /\ UNCHANGED <<inputs, refs_filtered, pending, ready, item, i, shown, assertOk,
                   results, verdicts, printed>>

Verdict(result) ==
    LET current == resolve_version(result.ref.version, result.versions)
        update == update_version_of(current, result.versions, target)
    IN  [result |-> result,
         current |-> current,
         invoked |-> Invoked(current),
         update |-> update,
         skip |-> skip(current, update)]

\* one iteration of the loop over sorted(results)
ReportRow ==
    /\ pc = "report"
    /\ todo # <<>>
    /\ LET v == Verdict(Head(todo))
       IN  /\ verdicts' = Append(verdicts, v)
           /\ printed' = IF v.skip THEN printed
                         ELSE Append(printed, Row(v.result, v.current, v.update, results))
    /\ todo' = Tail(todo)
    /\ UNCHANGED <<inputs, pc, refs_filtered, pending, ready, item, i, shown, assertOk,
                   results>>

\* the loop ends; run() returns
ReportEnd ==
    /\ pc = "report"
    /\ todo = <<>>
    /\ pc' = "done"
    /\ UNCHANGED <<inputs, refs_filtered, pending, ready, item, i, shown, assertOk,
                   results, todo, verdicts, printed>>

\* main(): KeyboardInterrupt while run() is under way; the program ends
Interrupt ==
    /\ pc \in {"start", "bar", "await", "yielded", "resume", "report"}
    /\ pc' = "interrupted"
    /\ UNCHANGED <<inputs, refs_filtered, pending, ready, item, i, shown, assertOk,
                   results, todo, verdicts, printed>>

Next ==
    \/ RunStart
    \/ BarStart
    \/ \E k \in 1..MaxRefs : LookupDone(k)
    \/ Yield
    \/ Collect
    \/ Resume
    \/ ReportStart
    \/ ReportRow
    \/ ReportEnd
    \/ Interrupt

Spec == Init /\ [][Next]_vars

TypeOK ==
    /\ pc \in {"start", "bar", "await", "yielded", "resume", "report", "done",
               "interrupted", "crashed"}
    /\ i \in 0..MaxRefs + 1

--------------------------------------------------------------------------
\* Properties

Elems(sq) == {sq[k] : k \in Indices(sq)}

Count(sq, x) == Cardinality({k \in Indices(sq) : sq[k] = x})

\* a record the report must leave out: current version semantic and no update
UpToDate(v) == v.current.kind = "version" /\ v.update = None

\* the position in the report of the k-th verdict, when it is not skipped
RowIndex(k) == Cardinality({m \in 1..k : ~verdicts[m].skip})

RowOfVerdict(k) == printed[RowIndex(k)]

IsRowOf(row, result) ==
    /\ row.package = result.ref.package
    /\ row.version = Str(result.ref.version)

Retained == SelectSeq(verdicts, LAMBDA v : ~UpToDate(v))

\* C1: the rows printed are, in order, those of the records examined whose
\* current version is not semantic or that have an update, one row each; a
\* record with a semantic current version and no update has no row; once run()
\* is done every collected SearchResult has been examined exactly once.
C1_OmittedIffUpToDate ==
    /\ Len(printed) = Len(Retained)
    /\ \A k \in Indices(printed) : IsRowOf(printed[k], Retained[k].result)
    /\ pc = "done" =>
          \A r \in Elems(results) :
              Count([k \in Indices(verdicts) |-> verdicts[k].result], r) = Count(results, r)

C1_Witness ==
    /\ pc = "done"
    /\ \E v \in Elems(verdicts) : UpToDate(v)
    /\ \E v \in Elems(verdicts) : v.current = None
    /\ Len(printed) = 1

\* C2: once run() is done, every filtered requirement whose lookup failed or
\* timed out (a SearchResult with no versions) has its row in the report, as
\* every filtered requirement should, and the row shows an empty list of
\* versions; this also when the declared version is a concrete semantic one.
C2_FailedLookupVisible ==
    pc = "done" =>
        \A r \in Elems(results) :
            r.error =>
                /\ Count([k \in Indices(printed) |-> <<printed[k].package, printed[k].version>>],
                         <<r.ref.package, Str(r.ref.version)>>)
                     = Count([k \in Indices(results) |->
                                 <<results[k].ref.package, Str(results[k].ref.version)>>],
                             <<r.ref.package, Str(r.ref.version)>>)
                /\ \E k \in Indices(printed) :
                      IsRowOf(printed[k], r) /\ printed[k].update = <<>>

\* C3: no row is printed before all N SearchResults are collected, so an
\* interruption while lookups are outstanding leaves the report empty.
C3_NoPartialReport ==
    /\ printed # <<>> => (Len(results) = N /\ pending = {} /\ ready = <<>>)
    /\ (pc = "interrupted" /\ Len(results) < N) => printed = <<>>

C3_Witness ==
    /\ pc = "interrupted"
    /\ pending # {}
    /\ results # <<>>
    /\ printed = <<>>

\* C4: the count shown starts at 0, goes up by exactly 1 from one line to the
\* next, never exceeds the number of results taken, is N once the collection
\* is over and is N only when all N results are taken; failed lookups count.
C4_ProgressCount ==
    /\ shown # <<>> => shown[1].j = 0
    /\ \A k \in 1..Len(shown) - 1 : shown[k + 1].j = shown[k].j + 1
    /\ displayed <= Len(results)
    /\ pc \in {"report", "done"} => displayed = N
    /\ (shown # <<>> /\ displayed = N) => Len(results) = N

C4_Witness ==
    /\ pc = "done"
    /\ N = 2
    /\ \E r \in Elems(results) : r.error
    /\ \E r \in Elems(results) : ~r.error
    /\ displayed = 2

\* what run() prints for the results rs taken in the order given
RECURSIVE Report(_, _)
Report(rest, all) ==
    IF rest = <<>> THEN <<>>
    ELSE LET v == Verdict(Head(rest))
         IN  (IF v.skip THEN <<>> ELSE <<Row(v.result, v.current, v.update, all)>>)
               \o Report(Tail(rest), all)

\* the results of the run in which the lookups complete in the order of the input
InputOrderResults == [k \in 1..N |-> SearchResult(refs_filtered[k], k \in failing)]

UniqueNames ==
    \A j, k \in 1..N : refs_filtered[j].package = refs_filtered[k].package => j = k

\* C5: with unique package names the report of a finished run is the report of
\* the run whose lookups complete in input order, whatever order they took.
C5_SameReportAnyOrder ==
    (pc = "done" /\ UniqueNames) =>
        printed = Report(sorted(InputOrderResults), InputOrderResults)

C5_Witness ==
    /\ pc = "done"
    /\ UniqueNames
    /\ Len(printed) = 2
    /\ results # InputOrderResults
    /\ printed[1].package = refs_filtered[1].package

\* C6: of two printed rows the earlier one's package name is not greater, by
\* code point, than the later one's.
C6_RowsAscending ==
    \A j, k \in Indices(printed) :
        j < k => ~StrLess(printed[k].package, printed[j].package)

C6_Witness ==
    /\ pc = "done"
    /\ Len(printed) = 2
    /\ printed[1].package = NameZ
    /\ printed[2].package = NameAB
    /\ results[1].ref.package = NameAB

\* the semantic entries of the available versions that satisfy the range
Satisfying(range, versions) ==
    {versions[k] : k \in {m \in Indices(versions) :
                             versions[m].kind = "version" /\ satisfies(range, versions[m])}}

\* C7: for a declared VersionRange the current version is the greatest
\* semantic available version that satisfies it; when there is none the
\* current version is None, find_update is not called and the update is None.
C7_RangeResolution ==
    \A v \in Elems(verdicts) :
        v.result.ref.version.kind = "range" =>
            LET sat == Satisfying(v.result.ref.version, v.result.versions)
            IN  IF sat = {}
                THEN v.current = None /\ ~v.invoked /\ v.update = None
                ELSE /\ v.current \in sat
                     /\ \A w \in sat : compare(w, v.current) <= 0

C7_Witness ==
    /\ \E v \in Elems(verdicts) :
          /\ v.result.ref.version.kind = "range"
          /\ v.result.versions # <<>>
          /\ v.current = None
    /\ \E v \in Elems(verdicts) :
          /\ v.result.ref.version.kind = "range"
          /\ v.current = V110

\* C8: a record whose current version is an opaque string has no update, is
\* not skipped, and its row lists every available version.
C8_NonSemanticListed ==
    \A k \in Indices(verdicts) :
        verdicts[k].current.kind = "str" =>
            /\ verdicts[k].update = None
            /\ ~verdicts[k].skip
            /\ RowIndex(k) \in Indices(printed)
            /\ IsRowOf(RowOfVerdict(k), verdicts[k].result)
            /\ RowOfVerdict(k).update
                 = JoinText(StrAll(verdicts[k].result.versions), <<",", " ">>)

C8_Witness ==
    \E k \in Indices(verdicts) :
        /\ verdicts[k].current = Main
        /\ Len(verdicts[k].result.versions) = 2
        /\ RowOfVerdict(k).update = <<"m", "a", "i", "n", ",", " ", "1", ".", "0", ".", "0">>

\* C9: whenever the pipeline is suspended waiting for a lookup the count shown
\* is the number of results collected, and the progress line is written only
\* by the progress bar's own steps, never by a step of a lookup worker.
C9_CountAtSuspension ==
    /\ [](pc = "await" => displayed = Len(results))
    /\ [][shown' # shown => (pc \in {"bar", "resume"} /\ ready' = ready)]_vars

C9_Witness ==
    /\ pc = "await"
    /\ Len(results) = 1
    /\ displayed = 1
    /\ pending # {}

\* C10: the assert of show() never fails: every count shown lies in 0..total
\* with total = N, and for N = 0 the bar is shown once, as 0/0 at 100%.
C10_AssertHolds ==
    /\ assertOk
    /\ pc # "crashed"
    /\ \A k \in Indices(shown) :
          shown[k].total = N /\ 0 <= shown[k].j /\ shown[k].j <= N
    /\ (N = 0 /\ pc \in {"report", "done"}) =>
          shown = <<[j |-> 0, total |-> 0, nbar |-> BarSize, perc |-> 100]>>

C10_Witness ==
    /\ pc = "done"
    /\ refs # <<>>
    /\ N = 0
    /\ Len(shown) = 1

====
